---------------------------- MODULE Spec2Model ----------------------------
(***************************************************************************)
(* A model of flask_wtf_top (src/flask_wtf_top/__init__.py): the attribute *)
(* resolver get_attrs, the form normalizer parse_form, the file extractor  *)
(* get_files / parse_files and the conditional validator required_if.      *)
(*                                                                         *)
(* Python strings that the code transforms (strip, lower, upper, operator  *)
(* application, secure_filename) are sequences of one-character strings;   *)
(* names that are only compared (field names, keys, type tags) are atoms.  *)
(* Python lists and dicts that the code creates or reads live on a heap of *)
(* objects addressed by reference, so that aliasing between a returned     *)
(* list and a class attribute is something the model can exhibit.          *)
(***************************************************************************)
EXTENDS Integers, Sequences, FiniteSets, TLC

VARIABLES
    mro,      \* type(self).__mro__: classes, most derived first, ToppingForm last
    lists,    \* heap of list objects: reference -> sequence of names
    dicts,    \* heap of dict objects: reference -> sequence of <<key, value>>
    forms,    \* form instances of the class: instance -> sequence of fields
    config,   \* current_app.config["WTF_CSRF_FIELD_NAME"]
    addict,   \* whether `from addict import Dict` succeeds
    clock,    \* datetime.now(timezone.utc)
    files,    \* request.files: field name -> sequence of uploaded entries
    rule,     \* the arguments required_if was built with, and its target
    ret,      \* the outcome of the last call
    first,    \* per instance, the first mapping parse_form returned
    decl0     \* the class-level declarations as they were at class definition

vars == <<mro, lists, dicts, forms, config, addict, clock, files,
          rule, ret, first, decl0>>

(***************************************************************************)
(* Bounds of the model.                                                    *)
(***************************************************************************)
MaxDepth == 2       \* classes below ToppingForm in the normalizer's chains
MaxChain == 3       \* classes below ToppingForm in the resolver's chains
MaxClock == 1       \* instants the clock runs through
MaxFiles == 3       \* entries uploaded under one field name
MaxChecks == 2      \* length of required_if's check list

(***************************************************************************)
(* Python values                                                           *)
(***************************************************************************)
NoneV == [t |-> "none", s |-> <<>>, b |-> FALSE, n |-> 0]
Str(s) == [t |-> "str", s |-> s, b |-> FALSE, n |-> 0]
Bool(b) == [t |-> "bool", s |-> <<>>, b |-> b, n |-> 0]
DateTime(n) == [t |-> "datetime", s |-> <<>>, b |-> FALSE, n |-> n]
FileObj(n) == [t |-> "file", s |-> <<>>, b |-> FALSE, n |-> n]

IsStr(v) == v.t = "str"

\* bool(v)
Truthy(v) ==
    CASE v.t = "none" -> FALSE
      [] v.t = "str" -> v.s # <<>>
      [] v.t = "bool" -> v.b
      [] OTHER -> TRUE

Whitespace == {" ", "\t", "\n"}

\* str.strip()
StripSeq(s) ==
    LET keep == {i \in 1..Len(s) : s[i] \notin Whitespace}
    IN  IF keep = {} THEN <<>>
        ELSE LET lo == CHOOSE i \in keep : \A j \in keep : i <= j
                 hi == CHOOSE i \in keep : \A j \in keep : j <= i
             IN  SubSeq(s, lo, hi)

Strip(v) == Str(StripSeq(v.s))

UpperCase == <<"A", "B", "C", "D", "E", "F", "G", "H", "I", "J", "K", "L", "M",
               "N", "O", "P", "Q", "R", "S", "T", "U", "V", "W", "X", "Y", "Z">>
LowerCase == <<"a", "b", "c", "d", "e", "f", "g", "h", "i", "j", "k", "l", "m",
               "n", "o", "p", "q", "r", "s", "t", "u", "v", "w", "x", "y", "z">>

LowerChar(c) ==
    IF \E i \in 1..26 : UpperCase[i] = c
    THEN LowerCase[CHOOSE i \in 1..26 : UpperCase[i] = c] ELSE c

UpperChar(c) ==
    IF \E i \in 1..26 : LowerCase[i] = c
    THEN UpperCase[CHOOSE i \in 1..26 : LowerCase[i] = c] ELSE c

\* str.lower(), str.upper()
Lower(v) == Str([i \in 1..Len(v.s) |-> LowerChar(v.s[i])])
Upper(v) == Str([i \in 1..Len(v.s) |-> UpperChar(v.s[i])])

(***************************************************************************)
(* Sequences, lists and dicts                                              *)
(***************************************************************************)
Range(s) == {s[i] : i \in 1..Len(s)}

\* The element of a one-element set (used to evaluate a value once).
The(S) == CHOOSE x \in S : TRUE

\* x in list
InList(x, s) == \E i \in 1..Len(s) : s[i] = x

\* The orders in which a set can be enumerated.
Orders(S) ==
    {q \in [1..Cardinality(S) -> S] : \A i, j \in 1..Cardinality(S) : q[i] = q[j] => i = j}

\* One order of the entries of a sequence: each at its first occurrence.
RECURSIVE FirstSeen(_)
FirstSeen(s) ==
    IF s = <<>> THEN <<>>
    ELSE <<Head(s)>> \o FirstSeen(SelectSeq(Tail(s), LAMBDA x : x # Head(s)))

\* A dict is its items in insertion order.
HasKey(d, k) == \E i \in 1..Len(d) : d[i][1] = k
Keys(d) == [i \in 1..Len(d) |-> d[i][1]]
\* dict.get(k, default)
DictGet(d, k, default) ==
    IF HasKey(d, k) THEN d[CHOOSE i \in 1..Len(d) : d[i][1] = k][2] ELSE default
\* Mutant of SetDefault: d[k] = v, an ancestor's value overwriting.
SetDefaultOverwrites(d, k, v) ==
    IF HasKey(d, k)
    THEN [i \in 1..Len(d) |-> IF d[i][1] = k THEN <<k, v>> ELSE d[i]]
    ELSE Append(d, <<k, v>>)

\* dict.setdefault(k, v)
SetDefault(d, k, v) == IF HasKey(d, k) THEN d ELSE Append(d, <<k, v>>)

RECURSIVE SetDefaultAll(_, _)
SetDefaultAll(d, items) ==
    IF items = <<>> THEN d
    ELSE SetDefaultAll(SetDefault(d, Head(items)[1], Head(items)[2]), Tail(items))

\* A mapping with string keys, as a function; m[k] = v added or overwritten.
EmptyMap == [k \in {} |-> NoneV]
MapPut(m, k, v) == [x \in DOMAIN m \cup {k} |-> IF x = k THEN v ELSE m[x]]

(***************************************************************************)
(* The heap                                                                *)
(***************************************************************************)
NoRef == 0

\* A reference no live object has; lists and dicts share one space of
\* references.
NewRef(L, D) ==
    LET used == DOMAIN L \cup DOMAIN D
        free == (1..(Cardinality(used) + 1)) \ used
    IN  CHOOSE r \in free : \A q \in free : r <= q

Put(heap, r, v) == [x \in DOMAIN heap \cup {r} |-> IF x = r THEN v ELSE heap[x]]
Restrict(heap, live) == [x \in DOMAIN heap \cap live |-> heap[x]]

(***************************************************************************)
(* Classes: ToppingForm and the form classes derived from it               *)
(***************************************************************************)
ListKinds == {"lowers", "uppers", "nostrips", "excludes"}
Kinds == ListKinds \cup {"aliases"}

FILE_FIELDS == {"FileField", "MultipleFileField"}
NON_VALUE_FIELDS == {"SubmitField"} \cup FILE_FIELDS

\* A class of the MRO: its __name__ and, per kind, the reference its __dict__
\* holds for "__<kind>__" (NoRef when the class does not declare it).
\* A declaration: has = the kinds the class body assigns.
Undeclared ==
    [has |-> {}, lowers |-> <<>>, uppers |-> <<>>, nostrips |-> <<>>,
     excludes |-> <<>>, aliases |-> <<>>]

\* class ToppingForm: all five attributes, empty.
ToppingFormDecl ==
    [has |-> Kinds, lowers |-> <<>>, uppers |-> <<>>, nostrips |-> <<>>,
     excludes |-> <<>>, aliases |-> <<>>]

ClassNames == <<"A", "B", "C", "D", "E">>

KindIndex(kind) ==
    CASE kind = "lowers" -> 1 [] kind = "uppers" -> 2 [] kind = "nostrips" -> 3
      [] kind = "excludes" -> 4 [] OTHER -> 5

\* The MRO of the most derived class of a chain of declarations (most derived
\* first): the chain's classes, then ToppingForm. Class i keeps attribute k
\* in the object 5 * (i - 1) + k.
MroOf(chain) ==
    [i \in 1..(Len(chain) + 1) |->
        LET d == IF i <= Len(chain) THEN chain[i] ELSE ToppingFormDecl
        IN  [name |-> IF i <= Len(chain) THEN ClassNames[Len(chain) + 1 - i]
                      ELSE "ToppingForm",
             attrs |-> [k \in Kinds |->
                           IF k \in d.has THEN 5 * (i - 1) + KindIndex(k) ELSE NoRef]]]

ListsOf(chain) ==
    LET all == Append(chain, ToppingFormDecl)
        refs == {5 * (i - 1) + KindIndex(k) : i \in 1..Len(all), k \in ListKinds}
    IN  [r \in {x \in refs : \E i \in 1..Len(all), k \in ListKinds :
                    x = 5 * (i - 1) + KindIndex(k) /\ k \in all[i].has} |->
            LET i == ((r - 1) \div 5) + 1
                k == CHOOSE kk \in ListKinds : KindIndex(kk) = ((r - 1) % 5) + 1
            IN  all[i][k]]

DictsOf(chain) ==
    LET all == Append(chain, ToppingFormDecl)
    IN  [r \in {5 * i : i \in {j \in 1..Len(all) : "aliases" \in all[j].has}} |->
            all[r \div 5].aliases]

\* The references the classes hold, and what they currently refer to.
ClassRefs(m) == {m[i].attrs[k] : i \in 1..Len(m), k \in Kinds} \ {NoRef}

Declared(m, L, D) ==
    [i \in 1..Len(m) |->
        [k \in Kinds |->
            [has |-> m[i].attrs[k] # NoRef,
             v |-> IF m[i].attrs[k] = NoRef THEN <<>>
                   ELSE IF k = "aliases" THEN D[m[i].attrs[k]] ELSE L[m[i].attrs[k]]]]]

(***************************************************************************)
(* get_attrs                                                               *)
(***************************************************************************)
\* The classes the loop visits: the MRO up to, not including, the first
\* class whose __name__ is "ToppingForm".
\* Mutant of Walked: the immediate class only.
WalkedLeafOnly(m) ==
    IF m = <<>> \/ Head(m).name = "ToppingForm" THEN <<>> ELSE <<Head(m)>>

RECURSIVE Walked(_)
Walked(m) ==
    IF m = <<>> \/ Head(m).name = "ToppingForm" THEN <<>>
    ELSE <<Head(m)>> \o Walked(Tail(m))

\* kls.__dict__.get(attr_name, []) / kls.__dict__.get(attr_name, {})
ClassList(kls, L, kind) == IF kls.attrs[kind] = NoRef THEN <<>> ELSE L[kls.attrs[kind]]
ClassDict(kls, D, kind) == IF kls.attrs[kind] = NoRef THEN <<>> ELSE D[kls.attrs[kind]]

\* What iterating kls.__dict__.get(attr_name, []) yields: the entries of a
\* list, the keys of a dict.
ClassIter(kls, L, D, kind) ==
    IF kind = "aliases" THEN Keys(ClassDict(kls, D, kind)) ELSE ClassList(kls, L, kind)

\* attrs_ after the loop, is_list: attrs_.extend(...) per visited class.
RECURSIVE Extended(_, _, _, _)
Extended(w, L, D, kind) ==
    IF w = <<>> THEN <<>>
    ELSE ClassIter(Head(w), L, D, kind) \o Extended(Tail(w), L, D, kind)

\* attrs_ after the loop, not is_list: setdefault per item of each visited
\* class, most derived class first.
RECURSIVE Merged(_, _, _)
Merged(acc, w, D) ==
    IF w = <<>> THEN acc
    ELSE Merged(SetDefaultAll(acc, ClassDict(Head(w), D, "aliases")), Tail(w), D)

\* Whether get_attrs raises: `.items()` of a list (a list kind asked for with
\* is_list=False and declared by a visited class).
AttrsRaises(m, kind, is_list) ==
    /\ ~is_list
    /\ kind # "aliases"
    /\ \E i \in 1..Len(Walked(m)) : Walked(m)[i].attrs[kind] # NoRef

\* Mutant of AttrsObj: attrs_ starts as the most derived class's own object.
AttrsObjOfClass(m, L, D, kind) ==
    IF m # <<>> /\ m[1].attrs[kind] # NoRef THEN m[1].attrs[kind] ELSE NewRef(L, D)

\* attrs_ = [] if is_list else {}: a new, empty object.
AttrsObj(m, L, D, kind) == NewRef(L, D)

\* list(set(attrs_)): the entries without duplicates, in the order the set
\* enumerates them, which is the order of its elements in `ord`.
ListOfSet(attrs_, ord) == SelectSeq(ord, LAMBDA x : x \in Range(attrs_))

\* The content of the object a reference names, empty for a new object.
Content(heap, r) == IF r \in DOMAIN heap THEN heap[r] ELSE <<>>

\* get_attrs(kind, is_list) on heaps L, D whose objects `live` are referenced
\* from outside the call: the heaps after the call, the reference returned,
\* and the exception raised if any.
GetAttrsCall(m, L, D, live, kind, is_list, ord) ==
    IF AttrsRaises(m, kind, is_list)
    THEN [lists |-> L, dicts |-> D, ref |-> NoRef, exc |-> "AttributeError"]
    ELSE IF is_list
    THEN LET a == AttrsObj(m, L, D, kind)
             L1 == Put(L, a, Content(L, a) \o Extended(Walked(m), L, D, kind))
             r == NewRef(L1, D)
             L2 == Put(L1, r, ListOfSet(L1[a], ord))
         IN  [lists |-> Restrict(L2, live \cup {r}), dicts |-> D,
              ref |-> r, exc |-> ""]
    ELSE LET a == AttrsObj(m, L, D, kind)
         IN  [lists |-> L,
              dicts |-> Put(D, a, Merged(Content(D, a), Walked(m), D)),
              ref |-> a, exc |-> ""]

(***************************************************************************)
(* The outcome of a call                                                   *)
(***************************************************************************)
NoRet ==
    [op |-> "", inst |-> 0, kind |-> "", is_list |-> FALSE, exc |-> "",
     map |-> EmptyMap, origin |-> [k \in {} |-> ""], boxed |-> FALSE,
     stamped |-> FALSE, ref |-> NoRef, reused |-> FALSE, name |-> "",
     out |-> <<>>, fmap |-> [k \in {} |-> <<>>], seen |-> <<>>, sat |-> <<>>]

\* The live instances of the form class.
Instances == {1, 2}

\* No parse_form call without timestamps has returned yet.
NotYet == [called |-> FALSE, map |-> EmptyMap]

NoRule ==
    [depend_name |-> "", op |-> "", value |-> NoneV, checks |-> <<>>, target |-> 0]

(***************************************************************************)
(* Operations of the resolver                                              *)
(***************************************************************************)
\* The objects the caller of the last call still references: the list or
\* dict a get_attrs call returned, until the next call's result replaces it.
Held == IF ret.op = "get_attrs" /\ ret.exc = "" THEN {ret.ref} ELSE {}

\* form.get_attrs(kind, is_list); the result replaces the one held before.
GetAttrs(kind, is_list) ==
    /\ \E ord \in Orders(Range(Extended(Walked(mro), lists, dicts, kind))) :
         \E c \in {GetAttrsCall(mro, lists, dicts, ClassRefs(mro) \cup Held,
                                 kind, is_list, ord)} :
         LET keep == ClassRefs(mro) \cup (IF c.exc = "" THEN {c.ref} ELSE {})
         IN  /\ lists' = Restrict(c.lists, keep)
             /\ dicts' = Restrict(c.dicts, keep)
             /\ ret' = [NoRet EXCEPT !.op = "get_attrs", !.kind = kind,
                            !.is_list = is_list, !.exc = c.exc, !.ref = c.ref,
                            !.reused = c.ref \in DOMAIN lists \cup DOMAIN dicts]
    /\ UNCHANGED <<mro, forms, config, addict, clock, files, rule, first, decl0>>

(***************************************************************************)
(* The resolver's specification: class chains A -> B -> C                  *)
(***************************************************************************)
ResolverDecls ==
    { Undeclared,
      [Undeclared EXCEPT !.has = {"aliases", "excludes"},
                         !.aliases = << <<"x", "a_out">> >>, !.excludes = <<"p">>],
      [Undeclared EXCEPT !.has = {"aliases", "excludes"},
                         !.aliases = << <<"x", "b_out">> >>, !.excludes = <<"q">>],
      [Undeclared EXCEPT !.has = {"aliases", "excludes", "lowers"},
                         !.aliases = << <<"y", "b_out">>, <<"x", "c_out">> >>,
                         !.excludes = <<"q", "p">>, !.lowers = <<"p">>],
      [Undeclared EXCEPT !.has = {"aliases", "excludes"},
                         !.excludes = <<"p", "p">>] }

Chains(decls, n) == UNION {[1..k -> decls] : k \in 1..n}

InitClasses(chain) ==
    /\ mro = MroOf(chain)
    /\ lists = ListsOf(chain)
    /\ dicts = DictsOf(chain)
    /\ decl0 = Declared(MroOf(chain), ListsOf(chain), DictsOf(chain))
    /\ ret = NoRet

InitResolve ==
    /\ \E chain \in Chains(ResolverDecls, MaxChain) : InitClasses(chain)
    /\ forms = <<>>
    /\ config = "<unset>"
    /\ addict = FALSE
    /\ clock = 0
    /\ files = [k \in {} |-> <<>>]
    /\ rule = NoRule
    /\ first = [i \in Instances |-> NotYet]

NextResolve ==
    \E kind \in Kinds, is_list \in BOOLEAN : GetAttrs(kind, is_list)

SpecResolve == InitResolve /\ [][NextResolve]_vars

(***************************************************************************)
(* parse_form                                                              *)
(***************************************************************************)
\* A field of a form instance: field.name, field.type, field.data.
Field(name, type, data) == [name |-> name, type |-> type, data |-> data]

\* current_app.config.get("WTF_CSRF_FIELD_NAME") or "csrf_token"
NoConfig == "<unset>"
CsrfName(cfg) == IF cfg = NoConfig \/ cfg = "" THEN "csrf_token" ELSE cfg

\* Mutant of Skipped: the type test left out.
SkippedByNameOnly(f, excludes) == InList(f.name, excludes)

\* name in excludes or field.type in NON_VALUE_FIELDS
Skipped(f, excludes) == InList(f.name, excludes) \/ f.type \in NON_VALUE_FIELDS

\* data after the strip step.
Stripped(f, nostrips) ==
    IF ~InList(f.name, nostrips) /\ f.type # "PasswordField" /\ IsStr(f.data)
    THEN Strip(f.data) ELSE f.data

\* Whether the case step raises: .lower() / .upper() of a value that is not
\* a string.
CaseRaises(name, data, lowers, uppers) ==
    /\ data # NoneV
    /\ ~IsStr(data)
    /\ InList(name, lowers) \/ InList(name, uppers)

\* Mutant of Cased: lowercased whatever the lowers set holds.
CasedLowerAlways(name, data, lowers, uppers) ==
    IF data # NoneV /\ IsStr(data) THEN Lower(data) ELSE data

\* data after the case step.
Cased(name, data, lowers, uppers) ==
    IF data # NoneV
    THEN IF InList(name, lowers) THEN Lower(data)
         ELSE IF InList(name, uppers) THEN Upper(data)
         ELSE data
    ELSE data

\* The loop body for field f: dct and the field each entry was taken from
\* after it, or the exception it raised.
NormalizeField(f, acc, lowers, uppers, nostrips, excludes, aliases) ==
    LET data == Stripped(f, nostrips)
        key == DictGet(aliases, f.name, f.name)
    IN  IF Skipped(f, excludes) THEN acc
        ELSE IF CaseRaises(f.name, data, lowers, uppers)
        THEN [acc EXCEPT !.exc = "AttributeError"]
        ELSE [acc EXCEPT !.map = MapPut(@, key, Cased(f.name, data, lowers, uppers)),
                         !.origin = MapPut(@, key, f.name)]

\* The loop over the fields from field i on.
RECURSIVE NormalizeFrom(_, _, _, _, _, _, _, _)
NormalizeFrom(fs, i, acc, lowers, uppers, nostrips, excludes, aliases) ==
    IF i > Len(fs) \/ acc.exc # "" THEN acc
    ELSE The({NormalizeFrom(fs, i + 1, a, lowers, uppers, nostrips, excludes, aliases) :
                a \in {NormalizeField(fs[i], acc, lowers, uppers, nostrips, excludes,
                                      aliases)}})

\* Mutant of Stamped: the timestamps added whatever the flag.
StampedAlways(acc, use_timestamps, now) ==
    [acc EXCEPT !.map = MapPut(MapPut(@, "created_at", DateTime(now)),
                               "updated_at", DateTime(now)),
                !.origin = MapPut(MapPut(@, "created_at", "<now>"),
                                  "updated_at", "<now>")]

\* if use_timestamps: dct.update(created_at=now, updated_at=now)
Stamped(acc, use_timestamps, now) ==
    IF use_timestamps
    THEN [acc EXCEPT !.map = MapPut(MapPut(@, "created_at", DateTime(now)),
                                    "updated_at", DateTime(now)),
                     !.origin = MapPut(MapPut(@, "created_at", "<now>"),
                                       "updated_at", "<now>")]
    ELSE acc

\* parse_form(box_wrap, use_timestamps) on a form with fields fs, on heaps
\* L, D whose objects `live` are referenced from outside the call. The five
\* results of get_attrs stay referenced by locals until the call returns.
ParseFormCall(m, L, D, live, fs, cfg, box_wrap, use_timestamps, now, hasAddict) ==
    LET w == Walked(m)
        \* parse_form only tests membership in the lists: any order serves.
        Call(h, lv, kind) ==
            GetAttrsCall(m, h, D, lv, kind, TRUE, FirstSeen(Extended(w, h, D, kind)))
        csrf == CsrfName(cfg)
        Return(L5, D5, acc) ==
            [lists |-> Restrict(L5, live), dicts |-> Restrict(D5, live),
             exc |-> acc.exc,
             map |-> IF acc.exc = "" THEN Stamped(acc, use_timestamps, now).map
                     ELSE EmptyMap,
             origin |-> IF acc.exc = "" THEN Stamped(acc, use_timestamps, now).origin
                        ELSE [k \in {} |-> ""],
             boxed |-> acc.exc = "" /\ box_wrap /\ hasAddict]
        Loop(c1, c2, c3, c4, c5, L5) ==
            The({Return(L5, c5.dicts, acc) :
                   acc \in {NormalizeFrom(fs, 1, [map |-> EmptyMap,
                                                  origin |-> [k \in {} |-> ""],
                                                  exc |-> ""],
                                          L5[c1.ref], L5[c2.ref], L5[c3.ref],
                                          L5[c4.ref], c5.dicts[c5.ref])}})
        \* if csrf: excludes.append(csrf)
        Excluding(c4) ==
            IF csrf # "" THEN [c4.lists EXCEPT ![c4.ref] = Append(@, csrf)]
            ELSE c4.lists
    IN  The({The({The({The({The({The({Loop(c1, c2, c3, c4, c5, L5) :
          L5 \in {Excluding(c4)}}) :
            c5 \in {GetAttrsCall(m, c4.lists, D,
                               live \cup {c1.ref, c2.ref, c3.ref, c4.ref},
                               "aliases", FALSE, <<>>)}}) :
          c4 \in {Call(c3.lists, live \cup {c1.ref, c2.ref, c3.ref}, "excludes")}}) :
          c3 \in {Call(c2.lists, live \cup {c1.ref, c2.ref}, "nostrips")}}) :
          c2 \in {Call(c1.lists, live \cup {c1.ref}, "uppers")}}) :
          c1 \in {Call(L, live, "lowers")}})

\* forms[inst].parse_form(box_wrap, use_timestamps)
ParseForm(inst, box_wrap, use_timestamps) ==
    \E c \in {ParseFormCall(mro, lists, dicts, ClassRefs(mro), forms[inst], config,
                           box_wrap, use_timestamps, clock, addict)} :
        /\ lists' = c.lists
        /\ dicts' = c.dicts
        /\ ret' = [NoRet EXCEPT !.op = "parse_form", !.inst = inst, !.exc = c.exc,
                       !.map = c.map, !.origin = c.origin, !.boxed = c.boxed,
                       !.stamped = use_timestamps,
                       !.reused = first[inst].called]
        /\ first' = IF first[inst].called \/ use_timestamps \/ c.exc # "" THEN first
                    ELSE [first EXCEPT ![inst] = [called |-> TRUE, map |-> c.map]]
        /\ UNCHANGED <<mro, forms, config, addict, clock, files, rule, decl0>>

\* Time passes.
Tick ==
    /\ clock < MaxClock
    /\ clock' = clock + 1
    /\ UNCHANGED <<mro, lists, dicts, forms, config, addict, files, rule, ret,
                   first, decl0>>

(***************************************************************************)
(* The normalizer's specification                                          *)
(***************************************************************************)
Bob == Str(<<" ", "B", "o", "b", " ">>)
ABcom == Str(<<"A", "@", "B", ".", "c", "o", "m">>)
Secret == Str(<<" ", "s", "e", "c", "r", "e", "t", " ">>)

\* The fields the form class declares, in declaration order: name, email and
\* password, in the wider class also agree and upload, then submit; the form
\* framework adds the anti-forgery token field under its configured name.
Shapes == {"basic", "wide"}

FormOf(shape, d, cfg) ==
    << Field("name", "StringField", d.name),
       Field("email", "StringField", d.email),
       Field("password", "PasswordField", d.password) >>
    \o (IF shape = "wide"
        THEN << Field("agree", "BooleanField", d.agree),
                Field("upload", "FileField", d.upload) >>
        ELSE <<>>)
    \o << Field("submit", "SubmitField", Bool(FALSE)),
          Field(CsrfName(cfg), "CSRFTokenField", Str(<<"t", "0", "k">>)) >>

Submissions ==
    { [name |-> Bob, email |-> ABcom, password |-> Secret, agree |-> Bool(TRUE),
       upload |-> FileObj(1)],
      [name |-> NoneV, email |-> Str(<<"\t", "x", "Y", " ">>),
       password |-> Str(<<"p", "W", " ">>), agree |-> NoneV, upload |-> NoneV] }

NormDecls ==
    { [Undeclared EXCEPT !.has = {"lowers", "aliases", "nostrips"},
                         !.lowers = <<"email">>,
                         !.aliases = << <<"name", "full_name">> >>,
                         !.nostrips = <<"password">>],
      [Undeclared EXCEPT !.has = {"excludes", "uppers", "lowers", "aliases"},
                         !.excludes = <<"email">>,
                         !.uppers = <<"name", "password">>,
                         !.lowers = <<"password">>,
                         !.aliases = << <<"name", "email">>, <<"agree", "ok">> >>],
      [Undeclared EXCEPT !.has = {"excludes", "uppers", "nostrips"},
                         !.excludes = <<"agree", "password">>,
                         !.uppers = <<"email", "agree">>,
                         !.nostrips = <<"email">>] }

Configs == {NoConfig, "tok"}

InitNormalize ==
    /\ \E chain \in Chains(NormDecls, MaxDepth) : InitClasses(chain)
    /\ config \in Configs
    /\ \E shape \in Shapes, one, other \in Submissions :
         /\ one.name = Bob
         /\ other.name = NoneV
         /\ forms = [i \in Instances |->
                       FormOf(shape, IF i = 1 THEN one ELSE other, config)]
    /\ addict \in BOOLEAN
    /\ clock = 0
    /\ files = [k \in {} |-> <<>>]
    /\ rule = NoRule
    /\ first = [i \in Instances |-> NotYet]

NextNormalize ==
    \/ \E inst \in Instances, box_wrap, use_timestamps \in BOOLEAN :
         ParseForm(inst, box_wrap, use_timestamps)
    \/ Tick

SpecNormalize == InitNormalize /\ [][NextNormalize]_vars

(***************************************************************************)
(* get_files and parse_files                                               *)
(***************************************************************************)
\* werkzeug.utils.secure_filename on a POSIX host: characters outside ASCII
\* are dropped, path separators become spaces, runs of whitespace become one
\* "_", characters other than letters, digits, "_", "." and "-" are removed,
\* and leading and trailing "." and "_" are stripped.
AsciiChars == Range(UpperCase) \cup Range(LowerCase) \cup Whitespace
              \cup {"0", "1", "_", ".", "-", "/", "@"}
SafeChars == Range(UpperCase) \cup Range(LowerCase) \cup {"0", "1", "_", ".", "-"}

\* "_".join(s.split())
RECURSIVE JoinWords(_, _)
JoinWords(s, started) ==
    IF s = <<>> THEN <<>>
    ELSE IF Head(s) \in Whitespace
    THEN IF started /\ \E i \in 1..Len(s) : s[i] \notin Whitespace
         THEN <<"_">> \o JoinWords(StripSeq(s), TRUE)
         ELSE JoinWords(StripSeq(s), started)
    ELSE <<Head(s)>> \o JoinWords(Tail(s), TRUE)

\* s.strip("._")
StripDots(s) ==
    LET keep == {i \in 1..Len(s) : s[i] \notin {".", "_"}}
    IN  IF keep = {} THEN <<>>
        ELSE SubSeq(s, CHOOSE i \in keep : \A j \in keep : i <= j,
                       CHOOSE i \in keep : \A j \in keep : j <= i)

secure_filename(filename) ==
    LET ascii == SelectSeq(filename, LAMBDA c : c \in AsciiChars)
        spaced == [i \in 1..Len(ascii) |-> IF ascii[i] = "/" THEN " " ELSE ascii[i]]
        joined == JoinWords(spaced, FALSE)
    IN  StripDots(SelectSeq(joined, LAMBDA c : c \in SafeChars))

\* An uploaded entry: the FileStorage object and its filename.
Entry(id, filename) == [file |-> id, filename |-> filename]

\* get_file(fo)
get_file(fo) ==
    [file |-> fo.file, filename |-> fo.filename,
     secure_filename |-> secure_filename(fo.filename)]

\* request.files.getlist(name)
GetList(rf, name) == IF name \in DOMAIN rf THEN rf[name] ELSE <<>>

\* Mutant of DedupKey: duplicates told by the original filename.
DedupKeyOriginal(info) == info.filename

\* What file_names holds for an entry.
DedupKey(info) == info.secure_filename

\* The loop of get_files from entry i on, files and file_names so far.
RECURSIVE GetFilesFrom(_, _, _, _)
GetFilesFrom(entries, i, out, file_names) ==
    IF i > Len(entries) THEN out
    ELSE LET fo == entries[i]
             info == get_file(fo)
         IN  IF fo.filename # <<>>
             THEN GetFilesFrom(entries, i + 1,
                      IF DedupKey(info) \notin file_names THEN Append(out, info)
                      ELSE out,
                      file_names \cup {DedupKey(info)})
             ELSE GetFilesFrom(entries, i + 1, out, file_names)

\* get_files(name)
GetFilesCall(rf, name) == GetFilesFrom(GetList(rf, name), 1, <<>>, {})

\* field.type.endswith("FileField"), over the type tags of the form library.
EndsWithFileField(type) == type \in {"FileField", "MultipleFileField"}

\* The first loop of parse_files, over the names given.
RECURSIVE ParseNames(_, _, _, _)
ParseNames(rf, names, i, data) ==
    IF i > Len(names) THEN data
    ELSE LET fl == GetFilesCall(rf, names[i])
         IN  ParseNames(rf, names, i + 1,
                        IF fl # <<>> THEN MapPut(data, names[i], fl) ELSE data)

\* The second loop of parse_files, over the fields of the form.
RECURSIVE ParseFileFields(_, _, _, _)
ParseFileFields(rf, fs, i, data) ==
    IF i > Len(fs) THEN data
    ELSE LET fl == GetFilesCall(rf, fs[i].name)
         IN  ParseFileFields(rf, fs, i + 1,
                IF Truthy(fs[i].data) /\ EndsWithFileField(fs[i].type) /\ fl # <<>>
                THEN MapPut(data, fs[i].name, fl) ELSE data)

\* parse_files(names)
ParseFilesCall(rf, fs, names) ==
    ParseFileFields(rf, fs, 1, ParseNames(rf, names, 1, [k \in {} |-> <<>>]))

\* forms[inst].get_files(name)
GetFiles(inst, name) ==
    /\ ret' = [NoRet EXCEPT !.op = "get_files", !.inst = inst, !.name = name,
                            !.out = GetFilesCall(files, name)]
    /\ UNCHANGED <<mro, lists, dicts, forms, config, addict, clock, files, rule,
                   first, decl0>>

\* forms[inst].parse_files(names)
ParseFiles(inst, names) ==
    /\ ret' = [NoRet EXCEPT !.op = "parse_files", !.inst = inst,
                            !.fmap = ParseFilesCall(files, forms[inst], names)]
    /\ UNCHANGED <<mro, lists, dicts, forms, config, addict, clock, files, rule,
                   first, decl0>>

(***************************************************************************)
(* The file extractor's specification                                      *)
(***************************************************************************)
FileNames ==
    { <<>>, <<"a">>, <<"a", " ", "b">>, <<"a", "/", "b">>, <<"a", "_", "b">>,
      <<".", "a">>, <<".", ".">> }

\* The uploads a request can carry under one name.
Uploads(n) ==
    UNION {{[i \in 1..k |-> Entry(i, q[i])] : q \in [1..k -> FileNames]} : k \in 0..n}

\* FileField.data: the first entry with a filename, None if there is none.
FirstFile(entries) ==
    IF \E i \in 1..Len(entries) : entries[i].filename # <<>>
    THEN FileObj(CHOOSE i \in 1..Len(entries) :
                    /\ entries[i].filename # <<>>
                    /\ \A j \in 1..(i - 1) : entries[j].filename = <<>>)
    ELSE NoneV

NameLists == {<<>>, <<"docs">>, <<"upload", "docs">>, <<"avatar">>}

InitFiles ==
    /\ InitClasses(<<Undeclared>>)
    /\ config = NoConfig
    /\ \E up \in Uploads(MaxFiles) :
         /\ files = [k \in {"upload", "docs"} |->
                       IF k = "upload" THEN up
                       ELSE <<Entry(1, <<"a", " ", "b">>), Entry(2, <<"a", "_", "b">>)>>]
         /\ forms = [i \in Instances |->
                       FormOf("wide", [name |-> Bob, email |-> ABcom, password |-> Secret,
                                       agree |-> Bool(TRUE), upload |-> FirstFile(up)],
                              config)]
    /\ addict = FALSE
    /\ clock = 0
    /\ rule = NoRule
    /\ first = [i \in Instances |-> NotYet]

NextFiles ==
    \/ \E inst \in Instances, name \in {"upload", "docs", "avatar"} : GetFiles(inst, name)
    \/ \E inst \in Instances, names \in NameLists : ParseFiles(inst, names)

SpecFiles == InitFiles /\ [][NextFiles]_vars

(***************************************************************************)
(* The library's operations together, on one form class                    *)
(***************************************************************************)
\* The declarations of NormDecls that involve aliases.
FrameDecls == {d \in NormDecls : "aliases" \in d.has}

InitFrame ==
    /\ \E chain \in Chains(FrameDecls, MaxDepth) : InitClasses(chain)
    /\ config \in Configs
    /\ \E one, other \in Submissions :
         /\ one.name = Bob
         /\ other.name = NoneV
         /\ forms = [i \in Instances |->
                       FormOf("wide", IF i = 1 THEN one ELSE other, config)]
    /\ files = [k \in {"upload"} |->
                  <<Entry(1, <<"a", " ", "b">>), Entry(2, <<>>), Entry(3, <<"a", "/", "b">>)>>]
    /\ addict = TRUE
    /\ clock = 0
    /\ rule = NoRule
    /\ first = [i \in Instances |-> NotYet]

NextFrame ==
    \/ \E inst \in Instances, box_wrap, use_timestamps \in BOOLEAN :
         ParseForm(inst, box_wrap, use_timestamps)
    \/ \E kind \in Kinds, is_list \in BOOLEAN : GetAttrs(kind, is_list)
    \/ GetFiles(1, "upload")
    \/ ParseFiles(1, <<"upload">>)

SpecFrame == InitFrame /\ [][NextFrame]_vars

(***************************************************************************)
(* required_if                                                             *)
(***************************************************************************)
\* A check of the check list: (dep_name, op_, val).
Check(dep_name, op_, val) == [dep_name |-> dep_name, op |-> op_, val |-> val]

\* getattr(form, name) for the name of a field; the form has no other
\* attribute that the rules name.
HasField(fs, name) == \E i \in 1..Len(fs) : fs[i].name = name
FieldOf(fs, name) == fs[CHOOSE i \in 1..Len(fs) : fs[i].name = name]

\* b in a, for strings
IsSubstring(b, a) ==
    \E i \in 0..(Len(a) - Len(b)) : SubSeq(a, i + 1, i + Len(b)) = b
\* a.startswith(b)
IsPrefix(b, a) == Len(b) <= Len(a) /\ SubSeq(a, 1, Len(b)) = b

\* The functions of the operator module that the rules name, and the methods
\* of str that they name.
OperatorFuncs == {"eq", "ne", "contains"}
StrMethods == {"startswith"}

\* func(depend_data, val) for func = getattr(operator, op_): the truth of the
\* result, or the exception raised.
OperatorApply(op_, a, v) ==
    CASE op_ = "eq" -> [exc |-> "", val |-> a = v]
      [] op_ = "ne" -> [exc |-> "", val |-> a # v]
      [] OTHER ->
            IF IsStr(a) /\ IsStr(v) THEN [exc |-> "", val |-> IsSubstring(v.s, a.s)]
            ELSE [exc |-> "TypeError", val |-> FALSE]

\* getattr(depend_data, op_)(val): the truth of the result, or the exception
\* raised.
MethodCall(a, op_, v) ==
    IF op_ \in StrMethods /\ IsStr(a)
    THEN IF IsStr(v) THEN [exc |-> "", val |-> IsPrefix(v.s, a.s)]
         ELSE [exc |-> "TypeError", val |-> FALSE]
    ELSE [exc |-> "AttributeError", val |-> FALSE]

\* logic1 or logic2 for a truthy dependency value a, a non-empty operator
\* name and the expected value v.
OpResult(op_, a, v) ==
    IF op_ \in OperatorFuncs THEN OperatorApply(op_, a, v) ELSE MethodCall(a, op_, v)

\* Mutant of EffectiveChecks: no default check.
EffectiveChecksAsGiven(r) == r.checks

\* checks_ = checks or [(depend_name, op, value)]
EffectiveChecks(r) ==
    IF r.checks # <<>> THEN r.checks ELSE <<Check(r.depend_name, r.op, r.value)>>

\* data after the strip of the target field's value.
TargetData(field) == IF IsStr(field.data) THEN Strip(field.data) ELSE field.data

\* depend_data after the strip step, for the field `field` under validation
\* and the dependency field `dep`.
DependData(field, dep) ==
    IF IsStr(dep.data) /\ field.type # "PasswordField" THEN Strip(dep.data)
    ELSE dep.data

\* Mutant of AllSatisfied: one satisfied check is enough.
AnySatisfied(logics, n) == logics > 0

\* logics == len(checks_)
AllSatisfied(logics, n) == logics = n

\* The loop over checks_ from check i on: logics, the dependency values
\* and the outcomes of the checks evaluated so far, and the exception that
\* ended the loop if any.
RECURSIVE CheckFrom(_, _, _, _, _)
CheckFrom(fs, field, checks_, i, acc) ==
    IF i > Len(checks_) \/ acc.exc # "" THEN acc
    ELSE LET c == checks_[i]
         IN  IF ~HasField(fs, c.dep_name)
             THEN [acc EXCEPT !.exc = "AttributeError"]
             ELSE LET depend_data == DependData(field, FieldOf(fs, c.dep_name))
                      seen == Append(acc.seen, depend_data)
                  IN  IF Truthy(depend_data) /\ c.op # ""
                      THEN LET r == OpResult(c.op, depend_data, c.val)
                           IN  IF r.exc # ""
                               THEN [acc EXCEPT !.exc = r.exc, !.seen = seen]
                               ELSE CheckFrom(fs, field, checks_, i + 1,
                                       [acc EXCEPT
                                          !.logics = IF r.val THEN @ + 1 ELSE @,
                                          !.seen = seen,
                                          !.sat = Append(@, r.val)])
                      ELSE CheckFrom(fs, field, checks_, i + 1,
                                     [acc EXCEPT !.seen = seen,
                                                 !.sat = Append(@, FALSE)])

\* check_field(form, field) of the rule r.
CheckFieldCall(fs, field, r) ==
    IF Truthy(TargetData(field))
    THEN [exc |-> "", logics |-> 0, seen |-> <<>>, sat |-> <<>>]
    ELSE LET acc == CheckFrom(fs, field, EffectiveChecks(r), 1,
                              [exc |-> "", logics |-> 0, seen |-> <<>>, sat |-> <<>>])
         IN  IF acc.exc = "" /\ AllSatisfied(acc.logics, Len(EffectiveChecks(r)))
             THEN [acc EXCEPT !.exc = "ValidationError"]
             ELSE acc

\* The form library validates the rule's target field of instance inst.
CheckField(inst) ==
    /\ rule.target # ""
    /\ \E c \in {CheckFieldCall(forms[inst], FieldOf(forms[inst], rule.target), rule)} :
         ret' = [NoRet EXCEPT !.op = "check_field", !.inst = inst,
                              !.name = rule.target, !.exc = c.exc,
                              !.seen = c.seen, !.sat = c.sat]
    /\ UNCHANGED <<mro, lists, dicts, forms, config, addict, clock, files, rule,
                   first, decl0>>

(***************************************************************************)
(* The validator's specification                                           *)
(***************************************************************************)
Blank == Str(<<" ">>)
Empty == Str(<<>>)
LetterA == Str(<<"a">>)

CheckOptions ==
    { Check("email", "ne", Empty), Check("email", "eq", LetterA),
      Check("pw", "ne", Empty), Check("pw", "startswith", LetterA),
      Check("email", "", NoneV), Check("email", "contains", NoneV),
      Check("nofield", "ne", Empty), Check("agree", "startswith", LetterA) }

CheckLists(n) == UNION {[1..k -> CheckOptions] : k \in 0..n}

\* A form with the field `confirm` that the rule is bound to and the
\* fields the checks name.
RuleForm(ttype, tdata, email, pw) ==
    << Field("email", "StringField", email),
       Field("pw", "PasswordField", pw),
       Field("agree", "BooleanField", Bool(TRUE)),
       Field("confirm", ttype, tdata) >>

InitRule ==
    /\ InitClasses(<<Undeclared>>)
    /\ config = NoConfig
    /\ addict = FALSE
    /\ clock = 0
    /\ files = [k \in {} |-> <<>>]
    /\ first = [i \in Instances |-> NotYet]
    /\ \E ttype \in {"StringField", "PasswordField"},
          tdata \in {NoneV, Blank, LetterA},
          email \in {Empty, Blank, Str(<<"a", " ">>)},
          pw \in {Blank, LetterA} :
         forms = [i \in Instances |->
                    IF i = 1 THEN RuleForm(ttype, tdata, email, pw)
                    ELSE RuleForm(ttype, Empty, LetterA, pw)]
    /\ \E checks \in CheckLists(MaxChecks),
          default \in {Check("", "", NoneV), Check("email", "ne", Empty)} :
         rule = [depend_name |-> default.dep_name, op |-> default.op,
                 value |-> default.val, checks |-> checks, target |-> "confirm"]

NextRule == \E inst \in Instances : CheckField(inst)

SpecRule == InitRule /\ [][NextRule]_vars

(***************************************************************************)
(* Properties of the resolver                                              *)
(***************************************************************************)
\* The classes below the base marker, most derived first, as declared.
Below == {i \in 1..Len(mro) : \A j \in 1..i : mro[j].name # "ToppingForm"}
DeclaresKey(i, k) == decl0[i]["aliases"].has /\ HasKey(decl0[i]["aliases"].v, k)
DeclaresEntry(i, kind, e) == decl0[i][kind].has /\ InList(e, decl0[i][kind].v)
AliasKeys == {"x", "y", "name", "email", "password"}
EntryNames == {"p", "q", "name", "email", "password", "upload", "submit"}

ResolvedAliases == ret.op = "get_attrs" /\ ret.kind = "aliases" /\ ~ret.is_list /\ ret.exc = ""
ResolvedList == ret.op = "get_attrs" /\ ret.kind \in ListKinds /\ ret.is_list /\ ret.exc = ""

\* C5: get_attrs("aliases", is_list=False) returns, for each source field name
\* declared by any class of the chain below the base marker, the output name
\* declared by the class nearest to the leaf that declares that key, and has
\* no other key.
C5_NearestDeclarationWins ==
    ResolvedAliases =>
        LET d == dicts[ret.ref]
        IN  /\ \A k \in AliasKeys :
                 HasKey(d, k) <=> \E i \in Below : DeclaresKey(i, k)
            /\ \A k \in AliasKeys : \A i \in Below :
                 (DeclaresKey(i, k) /\ \A j \in Below : j < i => ~DeclaresKey(j, k))
                     => DictGet(d, k, "") = DictGet(decl0[i]["aliases"].v, k, "")
            /\ \A a, b \in 1..Len(d) : d[a][1] = d[b][1] => a = b
            /\ Range(Keys(d)) \subseteq AliasKeys

\* C5's case: A -> B -> C, A declaring {x: a_out}, B {x: b_out}, C none, and
\* the aliases resolved on C are {x: b_out}.
C5_Witness ==
    /\ ResolvedAliases
    /\ Len(mro) = 4
    /\ ~decl0[1]["aliases"].has
    /\ decl0[2]["aliases"].v = << <<"x", "b_out">> >>
    /\ decl0[3]["aliases"].v = << <<"x", "a_out">> >>
    /\ dicts[ret.ref] = << <<"x", "b_out">> >>

\* C6: for a list-valued kind, get_attrs returns the duplicate-free union of
\* the entries declared by every class of the chain below the base marker.
C6_UnionOfChain ==
    ResolvedList =>
        LET l == lists[ret.ref]
        IN  /\ \A e \in EntryNames :
                 InList(e, l) <=> \E i \in Below : DeclaresEntry(i, ret.kind, e)
            /\ \A a, b \in 1..Len(l) : l[a] = l[b] => a = b
            /\ Range(l) \subseteq EntryNames

\* C6's case: the leaf declares excludes [q], its parent excludes [p], and
\* the resolved excludes are p and q.
C6_Witness ==
    /\ ResolvedList
    /\ ret.kind = "excludes"
    /\ Len(mro) = 3
    /\ decl0[1]["excludes"].v = <<"q">>
    /\ decl0[2]["excludes"].v = <<"p">>
    /\ Range(lists[ret.ref]) = {"p", "q"}
    /\ Len(lists[ret.ref]) = 2

(***************************************************************************)
(* Properties of the normalizer                                            *)
(***************************************************************************)
Returned == ret.op = "parse_form" /\ ret.exc = ""
TheForm == forms[ret.inst]

\* The resolved configuration, from the declarations of the classes below
\* the base marker.
ResolvedSet(kind) ==
    {e \in EntryNames \cup {"agree"} : \E i \in Below : DeclaresEntry(i, kind, e)}
ResolvedAlias(k) ==
    IF \E i \in Below : DeclaresKey(i, k)
    THEN LET i == CHOOSE x \in Below :
                    DeclaresKey(x, k) /\ \A y \in Below : DeclaresKey(y, k) => x <= y
         IN  DictGet(decl0[i]["aliases"].v, k, k)
    ELSE k

TokenName == IF config = NoConfig THEN "csrf_token" ELSE config

\* A field that must leave no entry: excluded, submit-type, file-type or the
\* anti-forgery token field.
Dropped(f) ==
    \/ f.name \in ResolvedSet("excludes")
    \/ f.type \in {"SubmitField", "FileField", "MultipleFileField"}
    \/ f.name = TokenName

\* C1 as stated: no key of the mapping parse_form returns equals the name of
\* an excluded, submit-type, file-type or token field, and no value comes
\* from such a field.
C1_NoKeyNamesDroppedField ==
    Returned =>
        \A i \in 1..Len(TheForm) :
            Dropped(TheForm[i]) =>
                /\ TheForm[i].name \notin DOMAIN ret.map
                /\ \A k \in DOMAIN ret.map : ret.origin[k] # TheForm[i].name

\* C1, amended: no entry of the mapping parse_form returns is taken from an
\* excluded, submit-type, file-type or token field: every entry is a timestamp
\* or is taken from a field that is none of these and stored under that
\* field's aliased output name.
C1_NoEntryFromDroppedField ==
    Returned =>
        \A k \in DOMAIN ret.map :
            \/ ret.stamped /\ k \in {"created_at", "updated_at"} /\ ret.origin[k] = "<now>"
            \/ \E i \in 1..Len(TheForm) :
                 /\ ret.origin[k] = TheForm[i].name
                 /\ ~Dropped(TheForm[i])
                 /\ k = ResolvedAlias(TheForm[i].name)

\* C1's case: a form with an excluded field, a file field, a submit field and
\* the token field, normalized to a mapping with entries.
C1_Witness ==
    /\ Returned
    /\ "password" \in ResolvedSet("excludes")
    /\ \E i \in 1..Len(TheForm) : TheForm[i].type = "FileField"
    /\ \E i \in 1..Len(TheForm) : TheForm[i].type = "SubmitField"
    /\ \E i \in 1..Len(TheForm) : TheForm[i].name = TokenName
    /\ DOMAIN ret.map = {"name", "email"}

\* The form and the resolved configuration of C7.
C7_Case ==
    /\ Returned
    /\ ~ret.stamped
    /\ {f \in Range(TheForm) : ~Dropped(f)} =
         { Field("name", "StringField", Bob), Field("email", "StringField", ABcom),
           Field("password", "PasswordField", Secret) }
    /\ ResolvedSet("lowers") = {"email"}
    /\ ResolvedSet("uppers") = {}
    /\ ResolvedSet("nostrips") = {"password"}
    /\ ResolvedSet("excludes") = {}
    /\ \A k \in AliasKeys : ResolvedAlias(k) = IF k = "name" THEN "full_name" ELSE k

\* C7 as stated: the mapping is {full_name: "bob", email: "a@b.com",
\* password: " secret "}.
C7_NameLowercased ==
    C7_Case =>
        ret.map = [k \in {"full_name", "email", "password"} |->
                     CASE k = "full_name" -> Str(<<"b", "o", "b">>)
                       [] k = "email" -> Str(<<"a", "@", "b", ".", "c", "o", "m">>)
                       [] OTHER -> Secret]

\* C7, amended: the mapping is {full_name: "Bob", email: "a@b.com",
\* password: " secret "}: the name is trimmed and renamed, its case kept.
C7_NameTrimmedOnly ==
    C7_Case =>
        ret.map = [k \in {"full_name", "email", "password"} |->
                     CASE k = "full_name" -> Str(<<"B", "o", "b">>)
                       [] k = "email" -> Str(<<"a", "@", "b", ".", "c", "o", "m">>)
                       [] OTHER -> Secret]

C7_Witness == C7_Case /\ "full_name" \in DOMAIN ret.map

\* C8: a parse_form call without use_timestamps returns the mapping that the
\* first such call on the same instance returned, whatever calls were made in
\* between on this or another instance.
C8_SameAsFirst ==
    (Returned /\ ~ret.stamped) =>
        /\ first[ret.inst].called
        /\ ret.map = first[ret.inst].map

\* C8's case: a repeated call on an instance, after calls on both instances.
C8_Witness ==
    /\ Returned /\ ~ret.stamped /\ ret.reused
    /\ \A i \in Instances : first[i].called
    /\ first[1].map # first[2].map
    /\ clock > 0

(***************************************************************************)
(* Properties of the file extractor                                        *)
(***************************************************************************)
Extracted == ret.op = "get_files"
Submitted == GetList(files, ret.name)
Named(i) == Submitted[i].filename # <<>>

\* The entries that have a filename and are the first with their sanitized
\* filename in submission order.
FirstOfName(i) ==
    /\ Named(i)
    /\ \A j \in 1..(i - 1) :
         Named(j) => secure_filename(Submitted[j].filename)
                        # secure_filename(Submitted[i].filename)

\* C4: get_files returns exactly the entries that have a filename and are the
\* first in submission order with their sanitized filename, in submission
\* order: no two descriptors share a sanitized filename, and entries without
\* a filename contribute nothing.
C4_FirstOfEachSanitizedName ==
    Extracted =>
        /\ {ret.out[k].file : k \in 1..Len(ret.out)}
              = {Submitted[i].file : i \in {x \in 1..Len(Submitted) : FirstOfName(x)}}
        /\ \A a, b \in 1..Len(ret.out) :
              /\ a < b => ret.out[a].file < ret.out[b].file
              /\ ret.out[a].secure_filename = ret.out[b].secure_filename => a = b
        /\ \A k \in 1..Len(ret.out) :
              /\ ret.out[k].filename # <<>>
              /\ ret.out[k].filename = Submitted[ret.out[k].file].filename
              /\ ret.out[k].secure_filename = secure_filename(ret.out[k].filename)

\* C4's case: a later entry with another original filename and the sanitized
\* filename of a kept one is discarded, as is an entry without a filename.
C4_Witness ==
    /\ Extracted
    /\ Len(Submitted) = 3
    /\ Len(ret.out) = 1
    /\ ~Named(2)
    /\ Submitted[3].filename # Submitted[1].filename
    /\ secure_filename(Submitted[3].filename) = ret.out[1].secure_filename
    /\ ret.out[1].file = 1

(***************************************************************************)
(* Properties of the class-level declarations                              *)
(***************************************************************************)
\* C10: no operation changes a class-level declaration: after any sequence of
\* parse_form, get_attrs, get_files and parse_files calls, the five attributes
\* of every class of the MRO, ToppingForm included, are bound and filled as
\* at class definition; the anti-forgery token name is in no class's
\* __excludes__; and what get_attrs returns is an object that did not exist
\* before the call.
C10_DeclarationsUnchanged ==
    /\ Declared(mro, lists, dicts) = decl0
    /\ \A i \in 1..Len(mro) :
         mro[i].attrs["excludes"] # NoRef
            => ~InList(CsrfName(config), lists[mro[i].attrs["excludes"]])
    /\ (ret.op = "get_attrs" /\ ret.exc = "")
            => ~ret.reused /\ ret.ref \notin ClassRefs(mro)

\* C10's case: get_attrs("excludes") after parse_form has run on both
\* instances of a class that declares __excludes__ itself.
C10_Witness ==
    /\ ret.op = "get_attrs" /\ ret.kind = "excludes" /\ ret.is_list /\ ret.exc = ""
    /\ \A i \in Instances : first[i].called
    /\ decl0[1]["excludes"].has
    /\ lists[ret.ref] # <<>>

(***************************************************************************)
(* Properties of the validator                                             *)
(***************************************************************************)
Validated == ret.op = "check_field"
Target == FieldOf(forms[ret.inst], ret.name)
TargetEmpty == ~Truthy(IF IsStr(Target.data) THEN Strip(Target.data) ELSE Target.data)
Effective == IF rule.checks # <<>> THEN rule.checks
             ELSE <<Check(rule.depend_name, rule.op, rule.value)>>

\* Check i can be evaluated: its dependency field exists and its operator
\* applies to the dependency value the validator evaluated.
Evaluable(i) ==
    /\ HasField(forms[ret.inst], Effective[i].dep_name)
    /\ i <= Len(ret.seen)
    /\ (Truthy(ret.seen[i]) /\ Effective[i].op # "")
          => OpResult(Effective[i].op, ret.seen[i], Effective[i].val).exc = ""

\* Check i is satisfied: the dependency value the validator evaluated is
\* truthy, the operator name is not empty and the operator's result is truthy.
Satisfied(i) ==
    /\ Evaluable(i)
    /\ Truthy(ret.seen[i])
    /\ Effective[i].op # ""
    /\ OpResult(Effective[i].op, ret.seen[i], Effective[i].val).val

NoChecksNoDefaults ==
    /\ Validated
    /\ rule.checks = <<>> /\ rule.depend_name = "" /\ rule.op = ""
    /\ TargetEmpty

\* C3 as stated: a rule with an empty check list and no defaults raises the
\* validation failure whenever the target field is empty.
C3_VacuousRaises == NoChecksNoDefaults => ret.exc = "ValidationError"

\* C3, amended: a rule with an empty check list and no defaults never raises
\* the validation failure: its effective check list is the one default check
\* ("", "", None), never empty, and on an empty target the lookup of the
\* dependency field named "" fails with attribute-not-found, which propagates.
C3_DefaultCheckLookupFails ==
    NoChecksNoDefaults =>
        /\ Len(Effective) = 1
        /\ ret.exc = "AttributeError"
        /\ ret.seen = <<>>

C3_Witness == NoChecksNoDefaults /\ ret.exc # "ValidationError"

\* C9: the dependency value of a check is trimmed before the truthiness test
\* and the operator application if and only if it is a string and the
\* DEPENDENCY field is not a password-type field, whatever the type of the
\* target field.
C9_TrimByDependencyType ==
    Validated =>
        \A i \in 1..Len(ret.seen) :
            LET dep == FieldOf(forms[ret.inst], Effective[i].dep_name)
            IN  ret.seen[i] = IF IsStr(dep.data) /\ dep.type # "PasswordField"
                              THEN Strip(dep.data) ELSE dep.data

=============================================================================
